---- MODULE Spec2Model ----
(***************************************************************************)
(* Model of stress-fiemap.c: the supervisor stress_fiemap(), the query     *)
(* workers it forks (stress_fiemap_spawn / stress_fiemap_ioctl), the       *)
(* fragmentation driver stress_fiemap_writer() and the racy aggregate      *)
(* counter stress_fiemap_count().                                          *)
(*                                                                         *)
(* System calls are the environment: each call's outcome (success, or one  *)
(* of a small set of errno values, or the extent count the kernel reports) *)
(* is chosen nondeterministically.  The clean-up calls whose results the   *)
(* code discards with (void) -- unlink, close of an open descriptor, kill, *)
(* waitpid, rmdir, munmap -- are taken to succeed on their valid           *)
(* arguments.  SIGKILL is taken to end its target at once.  The local      *)
(* variable c of stress_fiemap_ioctl only decides when fdatasync() is      *)
(* called, which touches nothing modelled here, and is left out.  The run  *)
(* flag g_keep_stressing_flag is one variable: the signal that clears it   *)
(* reaches the whole process group.  A read of a counter slot yields a     *)
(* value the slot has held (an aligned 64-bit load).  The fiemap-bytes      *)
(* option is taken as given, with a size that stress_check_range_bytes      *)
(* accepted; sizes are in units small enough to enumerate.  size_t is 64    *)
(* bits wide, so the size of the extent buffer does not wrap.               *)
(*                                                                         *)
(* started, punchLog, probe, killLog, badClose and skipReports             *)
(* record what has happened; no step of the program reads them.            *)
(***************************************************************************)
EXTENDS Integers, Sequences, FiniteSets, TLC

\* stress-fiemap.c:27  number of FIEMAP stressors
MAX_FIEMAP_PROCS == 4

\* Largest extent count the kernel reports in one FS_IOC_FIEMAP answer.
MaxExtents == 1
\* Largest number of query cycles the workers start in a run.
MaxCount == 2
\* The same, for the runs checked under fairness.
MaxCountFair == 1
\* The bogo-op budget (fiemap-ops N) of the run.
MaxOps == 2
\* The range of sizes the fiemap-bytes option accepts (line 43), in units small
\* enough to enumerate; the values of stress-ng.h are 1 MB and the file limit.
MinSize == 2
MaxSize == 8
\* Largest number of instances of the stressor (args->num_instances).
MaxInstances == 4

Procs == 0 .. (MAX_FIEMAP_PROCS - 1)

\* line 249: a slot of pids[] that was never assigned holds no pid; worker k
\* runs as pid k + 1, and a failed fork leaves -1
Uninit == -2

\* errno values the modelled calls can fail with
IoctlErrnos == {"EOPNOTSUPP", "EIO"}
WriteErrnos == {"ENOSPC", "EAGAIN", "EINTR", "EIO"}
PunchErrnos == {"ENOSPC", "EOPNOTSUPP", "EIO"}
ExitCodes == {"EXIT_SUCCESS", "EXIT_FAILURE", "EXIT_NO_RESOURCE", "EXIT_NOT_IMPLEMENTED"}

\* lines 43, 262, 265: the least and the greatest size of the file
MIN_FIEMAP_SIZE == MinSize
MAX_FIEMAP_SIZE == MaxSize

VARIABLES
    spc,                \* supervisor: position in stress_fiemap / stress_fiemap_writer
    rc,                 \* supervisor: rc of stress_fiemap (the run's exit status at "done")
    wrc,                \* driver: rc of stress_fiemap_writer
    mapped,             \* the shared counters are mmap'ed
    tmpdir,             \* the temporary directory exists
    fd,                 \* the supervisor's descriptor: "none", "open", "closed"
    badClose,           \* the supervisor called close() on a closed descriptor
    linked,             \* the target file has a directory entry
    procState,          \* last state given to stress_set_proc_state
    n,                  \* stress_fiemap: n, the number of workers spawned
    ri,                 \* stress_fiemap: i, the reap index
    pids,               \* stress_fiemap: pids[]
    killLog,            \* the pid values SIGKILL was sent to, in order
    punch_hole,         \* stress_fiemap_writer: punch_hole
    punchLog,           \* the hole punches so far: "none", "first_notsup" (the first
                        \* call failed with EOPNOTSUPP), "other" (calls, none of them
                        \* failed so), "later_notsup" (a later call failed so)
    probe,              \* the capability probe: "none", "ok", or its errno
    cidx,               \* stress_fiemap_count: i
    cacc,               \* stress_fiemap_count: counter
    bogo,               \* args counter, as last set by set_counter
    max_ops,            \* args max_ops (0: none)
    keepFlag,           \* g_keep_stressing_flag
    instance,           \* args->instance
    num_instances,      \* args->num_instances
    setting,            \* the fiemap-bytes setting, as stress_set_fiemap_bytes stored it
    fiemap_bytes,       \* stress_fiemap: fiemap_bytes
    skipReports,        \* number of pr_inf_skip reports emitted
    started,            \* number of query cycles started, over all workers
    cycleCap,           \* the number of query cycles this run is followed for
    counters,           \* the shared counters
    wpc,                \* worker: position in stress_fiemap_ioctl
    extents_size,       \* worker: extents_size, in extent records
    fm_extent_count,    \* worker: fiemap->fm_extent_count
    fm_mapped_extents   \* worker: fiemap->fm_mapped_extents

supVars == <<spc, rc, wrc, mapped, tmpdir, fd, badClose, linked, procState, n, ri,
             pids, killLog, punch_hole, punchLog, probe, cidx, cacc, bogo, fiemap_bytes>>
envVars == <<max_ops, keepFlag, instance, cycleCap, num_instances, setting>>
wrkVars == <<wpc, extents_size, fm_extent_count, fm_mapped_extents>>
vars == <<supVars, envVars, skipReports, started, counters, wrkVars>>

\* keep_stressing(args): the run flag is set and the bogo-op budget is not used up
keep_stressing(c) == keepFlag /\ (max_ops = 0 \/ c < max_ops)

\* rc starting out as success
RcInitSuccess == "EXIT_SUCCESS"

\* line 250: rc = EXIT_FAILURE
RcInit == "EXIT_FAILURE"

InitWith(cap) ==
    /\ cycleCap = cap
    /\ spc = "size"
    /\ rc = RcInit
    /\ wrc = "EXIT_FAILURE"
    /\ mapped = FALSE
    /\ tmpdir = FALSE
    /\ fd = "none"
    /\ badClose = FALSE
    /\ linked = FALSE
    /\ procState = "INIT"
    /\ n = 0
    /\ ri = 0
    /\ pids = [p \in Procs |-> Uninit]
    /\ killLog = <<>>
    /\ punch_hole = TRUE
    /\ punchLog = "none"
    /\ probe = "none"
    /\ cidx = 0
    /\ cacc = 0
    /\ bogo = 0
    /\ max_ops = MaxOps
    /\ keepFlag = TRUE
    /\ instance = 0      \* the designated instance, the one that reports
    /\ skipReports = 0
    /\ started = 0
    /\ counters = [p \in Procs |-> 0]
    /\ wpc = [p \in Procs |-> "none"]
    /\ extents_size = [p \in Procs |-> 0]
    /\ fm_extent_count = [p \in Procs |-> 0]
    /\ fm_mapped_extents = [p \in Procs |-> 0]

\* lines 255-258: the run is given the size s that the fiemap-bytes option set
\* and is one of ni instances; stress_get_setting has copied s to fiemap_bytes
GivenSize(s, ni) ==
    /\ setting = s
    /\ num_instances = ni
    /\ fiemap_bytes = s

Init == InitWith(MaxCount) /\ GivenSize(MAX_FIEMAP_SIZE, 1)

\* pr_inf_skip guarded by args->instance == 0 (lines 167-169 and 299-301)
SkipReport == IF instance = 0 THEN skipReports + 1 ELSE skipReports

\* the probe classifying its failure by the errno the ioctl left
ProbeErrnoOfCall(e) == e

\* stress_fiemap line 297: the errno the probe's failure is classified by
ProbeErrno(e) == "EOPNOTSUPP"

-----------------------------------------------------------------------------
(* stress_fiemap: set-up *)

\* line 264: fiemap_bytes /= args->num_instances (unsigned 64-bit division)
PerInstance(b, ni) == b \div ni

\* a size left as the division gave it
ClampedNever(b) == b

\* lines 265-266: a size below MIN_FIEMAP_SIZE is raised to it
Clamped(b) == IF b < MIN_FIEMAP_SIZE THEN MIN_FIEMAP_SIZE ELSE b

\* lines 264-266: the working length of this instance
Size ==
    /\ spc = "size"
    /\ fiemap_bytes' = Clamped(PerInstance(fiemap_bytes, num_instances))
    /\ spc' = "mmap"
    /\ UNCHANGED <<started, rc, wrc, mapped, tmpdir, fd, badClose, linked,
                   procState, n, ri, pids, killLog, punch_hole, punchLog, probe, cidx,
                   cacc, bogo, envVars, skipReports, counters, wrkVars>>

\* a failed mmap going on with the set-up
MmapFailedGoesOn == "mkdir"

\* line 274: a failed mmap returns at once
MmapFailed == "done"

\* lines 269-276: mmap of the shared counters, zeroed on success
Mmap ==
    /\ spc = "mmap"
    /\ \/ /\ rc' = "EXIT_NO_RESOURCE"
          /\ spc' = MmapFailed
          /\ UNCHANGED <<mapped, counters>>
       \/ /\ mapped' = TRUE
          /\ counters' = [p \in Procs |-> 0]
          /\ spc' = "mkdir"
          /\ rc' = rc
    /\ UNCHANGED <<fiemap_bytes, started, wrc, tmpdir, fd, badClose, linked, procState, n, ri,
                   pids, killLog, punch_hole, punchLog, probe, cidx, cacc, bogo, envVars,
                   skipReports, wrkVars>>

\* lines 278-282: stress_temp_dir_mk_args; on failure rc = exit_status(-ret), goto clean.
\* exit_status is defined outside this file: it yields some status other than success.
MkDir ==
    /\ spc = "mkdir"
    /\ \/ /\ \E code \in ExitCodes \ {"EXIT_SUCCESS"} : rc' = code
          /\ spc' = "clean"
          /\ tmpdir' = tmpdir
       \/ /\ tmpdir' = TRUE
          /\ spc' = "open"
          /\ rc' = rc
    /\ UNCHANGED <<fiemap_bytes, started, wrc, mapped, fd, badClose, linked, procState, n, ri,
                   pids, killLog, punch_hole, punchLog, probe, cidx, cacc, bogo, envVars,
                   skipReports, counters, wrkVars>>

\* lines 284-291: open(O_CREAT); on failure rc = exit_status(errno), goto dir_clean
Open ==
    /\ spc = "open"
    /\ \/ /\ \E code \in ExitCodes \ {"EXIT_SUCCESS"} : rc' = code
          /\ spc' = "dir_clean"
          /\ UNCHANGED <<fd, linked>>
       \/ /\ fd' = "open"
          /\ linked' = TRUE
          /\ spc' = "unlink"
          /\ rc' = rc
    /\ UNCHANGED <<fiemap_bytes, started, wrc, mapped, tmpdir, badClose, procState, n, ri,
                   pids, killLog, punch_hole, punchLog, probe, cidx, cacc, bogo, envVars,
                   skipReports, counters, wrkVars>>

\* a file whose directory entry is left in place
UnlinkedNever == linked

\* line 292: (void)unlink(filename): whether the entry exists afterwards
Unlinked == FALSE

\* line 292: unlink(filename)
Unlink ==
    /\ spc = "unlink"
    /\ linked' = Unlinked
    /\ spc' = "probe"
    /\ UNCHANGED <<fiemap_bytes, started, rc, wrc, mapped, tmpdir, fd, badClose, procState, n,
                   ri, pids, killLog, punch_hole, punchLog, probe, cidx, cacc, bogo,
                   envVars, skipReports, counters, wrkVars>>

\* lines 294-307: the capability probe.  e = "ok" is a successful ioctl, any
\* other e the errno of a failed one.
Probe ==
    /\ spc = "probe"
    /\ \E e \in IoctlErrnos \cup {"ok"} :
         /\ probe' = e
         /\ IF e # "ok" /\ ProbeErrno(e) = "EOPNOTSUPP"
            THEN /\ skipReports' = SkipReport
                 /\ rc' = "EXIT_NOT_IMPLEMENTED"
                 /\ spc' = "close_clean"
                 /\ procState' = procState
            ELSE /\ procState' = "RUN"
                 /\ spc' = "spawn"
                 /\ UNCHANGED <<rc, skipReports>>
    /\ UNCHANGED <<fiemap_bytes, started, wrc, mapped, tmpdir, fd, badClose, linked, n, ri,
                   pids, killLog, punch_hole, punchLog, cidx, cacc, bogo, envVars,
                   counters, wrkVars>>

\* lines 309-318 with stress_fiemap_spawn (221-241): one turn of the spawn loop.
\* A successful fork starts worker n at the top of stress_fiemap_ioctl.
Spawn ==
    /\ spc = "spawn"
    /\ IF n >= MAX_FIEMAP_PROCS
       THEN /\ spc' = "seek"
            /\ UNCHANGED <<rc, n, pids, wpc>>
       ELSE IF ~keep_stressing(bogo)
       THEN /\ rc' = "EXIT_SUCCESS"
            /\ spc' = "reap"
            /\ UNCHANGED <<n, pids, wpc>>
       ELSE \/ /\ pids' = [pids EXCEPT ![n] = -1]
               /\ spc' = "reap"
               /\ UNCHANGED <<rc, n, wpc>>
            \/ /\ pids' = [pids EXCEPT ![n] = n + 1]
               /\ wpc' = [wpc EXCEPT ![n] = "discover"]
               /\ n' = n + 1
               /\ UNCHANGED <<rc, spc>>
    /\ UNCHANGED <<fiemap_bytes, started, wrc, mapped, tmpdir, fd, badClose, linked, procState,
                   ri, killLog, punch_hole, punchLog, probe, cidx, cacc, bogo, envVars,
                   skipReports, counters, extents_size, fm_extent_count,
                   fm_mapped_extents>>

-----------------------------------------------------------------------------
(* stress_fiemap_writer and stress_fiemap_count *)

\* an interrupted write taken as fatal
WriteFatalInterrupted(e) == e # "EAGAIN"

\* line 108: a failed write ends the driver unless errno is EAGAIN or EINTR
\* (ENOSPC was taken by line 106)
WriteFatal(e) == e \notin {"EAGAIN", "EINTR"}

\* a hole punch whose failure never clears punch_hole
PunchDisablesNever(e) == FALSE

\* line 127: the errno of a failed hole punch that clears punch_hole
PunchDisables(e) == e = "EOPNOTSUPP"

\* the loop left with rc as it was
LoopExitRcKept == wrc

\* line 135: rc on leaving the loop by break or by its condition
LoopExitRc == "EXIT_SUCCESS"

\* lines 100-103: pick an offset, lseek (a failure breaks), enter stress_fiemap_count
DriverSeek ==
    /\ spc = "seek"
    /\ \/ /\ spc' = "tidy"
          /\ wrc' = LoopExitRc
       \/ /\ spc' = "count1"
          /\ wrc' = wrc
    /\ UNCHANGED <<fiemap_bytes, started, rc, mapped, tmpdir, fd, badClose, linked, procState,
                   n, ri, pids, killLog, punch_hole, punchLog, probe, cidx, cacc, bogo,
                   envVars, skipReports, counters, wrkVars>>

\* where the driver goes on after a stress_fiemap_count that returned true:
\* line 105 after the first, lines 118-120 after the second, line 134 after the third
AfterCount(site) == CASE site = "count1" -> "write"
                      [] site = "count2" -> IF punch_hole THEN "punch" ELSE "while"
                      [] OTHER -> "while"

\* a sum to which the driver adds an iteration of its own
PublishedWithOwn(c) == c + 1

\* line 71: set_counter(args, counter): the value published is the sum read
Published(c) == c

\* line 68: one turn of the summing loop, reading one shared slot
CountRead ==
    /\ spc \in {"count1", "count2", "count3"}
    /\ cidx < MAX_FIEMAP_PROCS
    /\ cacc' = cacc + counters[cidx]
    /\ cidx' = cidx + 1
    /\ UNCHANGED <<fiemap_bytes, started, spc, rc, wrc, mapped, tmpdir, fd, badClose, linked,
                   procState, n, ri, pids, killLog, punch_hole, punchLog, probe, bogo,
                   envVars, skipReports, counters, wrkVars>>

\* lines 71-72 and the caller's test (103-104, 114-119, 131-132): set_counter,
\* keep_stressing, break when it is false
CountDone ==
    /\ spc \in {"count1", "count2", "count3"}
    /\ cidx = MAX_FIEMAP_PROCS
    /\ bogo' = Published(cacc)
    /\ cidx' = 0
    /\ cacc' = 0
    /\ IF ~keep_stressing(cacc)
       THEN /\ spc' = "tidy"
            /\ wrc' = LoopExitRc
       ELSE /\ spc' = AfterCount(spc)
            /\ wrc' = wrc
    /\ UNCHANGED <<fiemap_bytes, started, rc, mapped, tmpdir, fd, badClose, linked, procState,
                   n, ri, pids, killLog, punch_hole, punchLog, probe, envVars,
                   skipReports, counters, wrkVars>>

\* lines 105-113: the write probe ended with e ("ok", or its errno)
DriverWriteGot(e) ==
    /\ spc = "write"
    /\ IF e = "ok" THEN spc' = "count2"
       ELSE IF e = "ENOSPC" THEN spc' = "while"
       ELSE IF WriteFatal(e) THEN spc' = "tidy"
       ELSE spc' = "count2"
    /\ UNCHANGED <<fiemap_bytes, started, rc, wrc, mapped, tmpdir, fd, badClose, linked,
                   procState, n, ri, pids, killLog, punch_hole, punchLog, probe, cidx,
                   cacc, bogo, envVars, skipReports, counters, wrkVars>>

\* lines 105-113: the write probe
DriverWrite == \E e \in WriteErrnos \cup {"ok"} : DriverWriteGot(e)

\* the record of the hole punches after one more that ended with e
PunchLogged(log, e) ==
    IF e = "EOPNOTSUPP"
    THEN (IF log = "none" THEN "first_notsup" ELSE IF log = "other" THEN "later_notsup" ELSE log)
    ELSE (IF log = "none" THEN "other" ELSE log)

\* lines 120-130: the hole punch
DriverPunch ==
    /\ spc = "punch"
    /\ \E e \in PunchErrnos \cup {"ok"} :
         /\ punchLog' = PunchLogged(punchLog, e)
         /\ IF e = "ENOSPC"
            THEN /\ spc' = "while"
                 /\ punch_hole' = punch_hole
            ELSE /\ spc' = "count3"
                 /\ punch_hole' = IF e # "ok" /\ PunchDisables(e) THEN FALSE ELSE punch_hole
    /\ UNCHANGED <<fiemap_bytes, started, rc, wrc, mapped, tmpdir, fd, badClose, linked,
                   procState, n, ri, pids, killLog, probe, cidx, cacc, bogo, envVars,
                   skipReports, counters, wrkVars>>

\* line 134: the loop condition
DriverWhile ==
    /\ spc = "while"
    /\ IF keep_stressing(bogo)
       THEN /\ spc' = "seek"
            /\ wrc' = wrc
       ELSE /\ spc' = "tidy"
            /\ wrc' = LoopExitRc
    /\ UNCHANGED <<fiemap_bytes, started, rc, mapped, tmpdir, fd, badClose, linked, procState,
                   n, ri, pids, killLog, punch_hole, punchLog, probe, cidx, cacc, bogo,
                   envVars, skipReports, counters, wrkVars>>

\* close(fd): closes an open descriptor, fails with EBADF on a closed one
CloseFd == IF fd = "open" THEN "closed" ELSE fd
CloseBad == badClose \/ fd # "open"

\* lines 136-139 and 319: tidy: close(fd); return rc to stress_fiemap
DriverTidy ==
    /\ spc = "tidy"
    /\ fd' = CloseFd
    /\ badClose' = CloseBad
    /\ rc' = wrc
    /\ spc' = "reap"
    /\ UNCHANGED <<fiemap_bytes, started, wrc, mapped, tmpdir, linked, procState, n, ri, pids,
                   killLog, punch_hole, punchLog, probe, cidx, cacc, bogo, envVars,
                   skipReports, counters, wrkVars>>

-----------------------------------------------------------------------------
(* stress_fiemap: reaping and tear-down *)

Live == {"discover", "check", "populate", "while"}
Zombie == {"exited", "killed"}

\* a signal that ends no worker
KillTargetsNone(v) == {}

\* the workers a kill(v, SIGKILL) ends: worker k runs as pid k + 1, and pid -1
\* addresses every process the caller may signal
KillTargets(v) == IF v = -1 THEN Procs
                  ELSE IF v \in 1 .. MAX_FIEMAP_PROCS THEN {v - 1}
                  ELSE {}

\* the workers' positions after kill(v, SIGKILL)
AfterKill(v) == [p \in Procs |->
                   IF p \in KillTargets(v) /\ wpc[p] \in Live THEN "killed" ELSE wpc[p]]

\* a reap loop over every slot of pids[]
ReapBoundAll == MAX_FIEMAP_PROCS

\* line 323: the reap loop runs over i < n, the workers spawned
ReapBound == n

\* line 325: shim_waitpid(pids[i]) on the workers as they are in w: it reaps
\* worker i once it has ended, and returns at once when there is no such child
AfterWait(w, i) == [w EXCEPT ![i] = IF w[i] \in Zombie THEN "reaped" ELSE w[i]]

\* what is left of the workers' variables f when the workers are as in w: a
\* worker that no longer runs has no memory
Kept(f, w) == [p \in Procs |-> IF w[p] \in Live THEN f[p] ELSE 0]

\* lines 321-326: one turn of the reap loop: kill(pids[i], SIGKILL), then
\* shim_waitpid(pids[i]), which does not return while that worker runs; i++
Reap ==
    /\ spc = "reap"
    /\ ri < ReapBound
    /\ procState' = "DEINIT"
    /\ killLog' = Append(killLog, pids[ri])
    /\ AfterKill(pids[ri])[ri] \notin Live
    /\ wpc' = AfterWait(AfterKill(pids[ri]), ri)
    /\ extents_size' = Kept(extents_size, wpc')
    /\ fm_extent_count' = Kept(fm_extent_count, wpc')
    /\ fm_mapped_extents' = Kept(fm_mapped_extents, wpc')
    /\ ri' = ri + 1
    /\ UNCHANGED <<fiemap_bytes, started, spc, rc, wrc, mapped, tmpdir, fd,
                   badClose, linked, n, pids, punch_hole, punchLog, probe, cidx, cacc,
                   bogo, envVars, skipReports, counters>>

\* lines 321-323: the reap loop ends when i reaches n
ReapDone ==
    /\ spc = "reap"
    /\ ri >= ReapBound
    /\ procState' = "DEINIT"
    /\ spc' = "close_clean"
    /\ UNCHANGED <<fiemap_bytes, started, rc, wrc, mapped, tmpdir, fd, badClose, linked, n, ri,
                   pids, killLog, punch_hole, punchLog, probe, cidx, cacc, bogo, envVars,
                   skipReports, counters, wrkVars>>

\* a tear-down that runs the label jumped to and no later one
TearDownOnly(label) == {label}

\* the labels of the tear-down, in the order the code falls through them
TearDownFrom(label) == CASE label = "close_clean" -> {"close_clean", "dir_clean", "clean"}
                         [] label = "dir_clean" -> {"dir_clean", "clean"}
                         [] OTHER -> {"clean"}

\* lines 327-337: the tear-down from the label the supervisor jumped to, to the
\* return: close(fd) at close_clean, stress_temp_dir_rm_args at dir_clean,
\* munmap at clean.  No other process is left by then.
TearDown ==
    /\ spc \in {"close_clean", "dir_clean", "clean"}
    /\ procState' = "DEINIT"
    /\ fd' = IF "close_clean" \in TearDownFrom(spc) THEN CloseFd ELSE fd
    /\ badClose' = IF "close_clean" \in TearDownFrom(spc) THEN CloseBad ELSE badClose
    /\ tmpdir' = IF "dir_clean" \in TearDownFrom(spc) THEN FALSE ELSE tmpdir
    /\ mapped' = IF "clean" \in TearDownFrom(spc) THEN FALSE ELSE mapped
    /\ spc' = "done"
    /\ UNCHANGED <<fiemap_bytes, started, rc, wrc, linked, n, ri, pids, killLog, punch_hole,
                   punchLog, probe, cidx, cacc, bogo, envVars, skipReports, counters,
                   wrkVars>>

-----------------------------------------------------------------------------
(* stress_fiemap_ioctl, run by each forked worker *)

RECURSIVE SumTo(_, _)
SumTo(f, k) == IF k = 0 THEN 0 ELSE f[k - 1] + SumTo(f, k - 1)

\* lines 184-185: the extent records the buffer is resized for, given the
\* count m the discovery call reported
ExtentsSize(m) == m

\* a capacity left at the zero of calloc
PopulateCapacityNone(m) == 0

\* the capacity the populate call asks for (line 199)
PopulateCapacity(m) == m

\* what the kernel may report for a populate call with capacity ec: at most ec
\* extents when ec > 0; with ec = 0 the call only counts, and reports every
\* extent the file has by then
PopulateAnswers(ec) == {m \in 0 .. MaxExtents : ec = 0 \/ m <= ec}

\* every worker given the first slot
CounterSlotShared(k) == 0

\* line 313: worker k is given &counters[k]
CounterSlot(k) == k

\* a cycle counted twice
CountedTwice(c, ec, m) == c + 2

\* a counter too narrow for its count, wrapping at 2
CountedNarrow(c, ec, m) == (c + 1) % 2

\* line 209: (*counter)++ after a populate call that returned ok with m mapped
\* extents for capacity ec
Counted(c, ec, m) == c + 1

\* a worker's end taking the other running workers with it
WorkerExitGroup(p) == [q \in Procs |->
                         IF wpc[q] \in {"discover", "check", "populate", "while"}
                         THEN "exited" ELSE wpc[q]]

\* the break out of the loop of stress_fiemap_ioctl and line 237: the worker
\* itself ends, with _exit(EXIT_SUCCESS)
WorkerExit(p) == [wpc EXCEPT ![p] = "exited"]

\* lines 157-177: calloc, the discovery ioctl
WorkerDiscover(p) ==
    /\ wpc[p] = "discover"
    /\ started < cycleCap
    /\ started' = started + 1
    /\ \/ /\ wpc' = WorkerExit(p)
          /\ UNCHANGED <<fm_mapped_extents, skipReports>>
       \/ \E e \in IoctlErrnos :
            /\ wpc' = WorkerExit(p)
            /\ skipReports' = IF e = "EOPNOTSUPP" THEN SkipReport ELSE skipReports
            /\ UNCHANGED fm_mapped_extents
       \/ \E m \in 0 .. MaxExtents :
            /\ fm_mapped_extents' = [fm_mapped_extents EXCEPT ![p] = m]
            /\ wpc' = [wpc EXCEPT ![p] = "check"]
            /\ UNCHANGED skipReports
    /\ UNCHANGED <<supVars, envVars, counters, extents_size, fm_extent_count>>

\* lines 178-200: keep_stressing, realloc, set the capacity, clear the count
WorkerCheck(p) ==
    /\ wpc[p] = "check"
    /\ IF ~keep_stressing(bogo)
       THEN /\ wpc' = WorkerExit(p)
            /\ fm_mapped_extents' = [fm_mapped_extents EXCEPT ![p] = 0]
            /\ UNCHANGED <<extents_size, fm_extent_count>>
       ELSE \/ /\ wpc' = WorkerExit(p)
               /\ fm_mapped_extents' = [fm_mapped_extents EXCEPT ![p] = 0]
               /\ UNCHANGED <<extents_size, fm_extent_count>>
            \/ /\ extents_size' =
                     [extents_size EXCEPT ![p] = ExtentsSize(fm_mapped_extents[p])]
               /\ fm_extent_count' =
                     [fm_extent_count EXCEPT ![p] = PopulateCapacity(fm_mapped_extents[p])]
               /\ fm_mapped_extents' = [fm_mapped_extents EXCEPT ![p] = 0]
               /\ wpc' = [wpc EXCEPT ![p] = "populate"]
    /\ UNCHANGED <<started, supVars, envVars, skipReports, counters>>

\* lines 202-207: the populate call failed
PopulateFailed(p) ==
    /\ wpc[p] = "populate"
    /\ wpc' = WorkerExit(p)
    /\ extents_size' = [extents_size EXCEPT ![p] = 0]
    /\ fm_extent_count' = [fm_extent_count EXCEPT ![p] = 0]
    /\ UNCHANGED <<started, supVars, envVars, skipReports, counters, fm_mapped_extents>>

\* lines 202-213: the populate call returned ok, reporting m mapped extents;
\* free, (*counter)++
PopulateGot(p, m) ==
    /\ wpc[p] = "populate"
    /\ m \in PopulateAnswers(fm_extent_count[p])
    /\ counters' = [counters EXCEPT
                      ![CounterSlot(p)] =
                          Counted(counters[CounterSlot(p)], fm_extent_count[p], m)]
    /\ wpc' = [wpc EXCEPT ![p] = "while"]
    /\ extents_size' = [extents_size EXCEPT ![p] = 0]
    /\ fm_extent_count' = [fm_extent_count EXCEPT ![p] = 0]
    /\ UNCHANGED <<started, supVars, envVars, skipReports, fm_mapped_extents>>

\* lines 202-213: the populate ioctl, free, (*counter)++
WorkerPopulate(p) ==
    \/ PopulateFailed(p)
    \/ \E m \in 0 .. MaxExtents : PopulateGot(p, m)

\* line 214: the loop condition; line 237: _exit when the loop is left
WorkerWhile(p) ==
    /\ wpc[p] = "while"
    /\ wpc' = IF keep_stressing(bogo) THEN [wpc EXCEPT ![p] = "discover"] ELSE WorkerExit(p)
    /\ UNCHANGED <<started, supVars, envVars, skipReports, counters,
                   extents_size, fm_extent_count, fm_mapped_extents>>

-----------------------------------------------------------------------------
\* the harness clears g_keep_stressing_flag (time budget used up, or a signal);
\* every process of the group sees it cleared
Stop ==
    /\ keepFlag
    /\ spc # "done"
    /\ keepFlag' = FALSE
    /\ UNCHANGED <<started, supVars, max_ops, instance, cycleCap,
                   num_instances, setting, skipReports, counters, wrkVars>>

Supervisor ==
    \/ Size \/ Mmap \/ MkDir \/ Open \/ Unlink \/ Probe \/ Spawn
    \/ DriverSeek \/ CountRead \/ CountDone \/ DriverWrite \/ DriverPunch
    \/ DriverWhile \/ DriverTidy
    \/ Reap \/ ReapDone \/ TearDown

Worker(p) ==
    \/ WorkerDiscover(p) \/ WorkerCheck(p) \/ WorkerPopulate(p)
    \/ WorkerWhile(p)

Next == Supervisor \/ Stop \/ \E p \in Procs : Worker(p)

Spec == Init /\ [][Next]_vars

\* The supervisor is a process the system keeps scheduling, and each of its
\* calls returns: shim_waitpid too, once the worker it waits for has ended.
\* Nothing is assumed of the workers or of the harness.
FairInit == InitWith(MaxCountFair) /\ GivenSize(MAX_FIEMAP_SIZE, 1)

FairSpec == FairInit /\ [][Next]_vars /\ WF_vars(Supervisor)

\* The set-up of stress_fiemap up to the call of the driver, for every size
\* the option accepts and every number of instances.
SizeInit ==
    /\ InitWith(MaxCount)
    /\ \E s \in MIN_FIEMAP_SIZE .. MAX_FIEMAP_SIZE, ni \in 1 .. MaxInstances :
         GivenSize(s, ni)

SizeNext == Size \/ Mmap \/ MkDir \/ Open \/ Unlink \/ Probe \/ Spawn \/ Stop

SizeSpec == SizeInit /\ [][SizeNext]_vars

-----------------------------------------------------------------------------
(* Properties *)

Driving == spc \in {"seek", "count1", "write", "count2", "punch", "count3", "while"}

\* C1: when a populate call returns more mapped extents than the capacity it
\* asked for, the cycle is not counted (the worker's counter stays) and the
\* worker's loop ends.
C1_OverrunFailsClosed ==
    [][\A p \in Procs : \A m \in 0 .. MaxExtents :
         (PopulateGot(p, m) /\ m > fm_extent_count[p])
           => (counters'[p] = counters[p] /\ wpc'[p] = "exited")]_vars

\* C2: after a failed capability probe, whatever its errno, no worker is ever
\* forked, the driver never runs, the state RUN is never entered and the run
\* ends with EXIT_NOT_IMPLEMENTED.
C2_ProbeFailureEndsRun ==
    probe \notin {"none", "ok"} =>
        /\ rc = "EXIT_NOT_IMPLEMENTED"
        /\ spc \in {"close_clean", "done"}
        /\ procState # "RUN"
        /\ n = 0
        /\ \A p \in Procs : wpc[p] = "none" /\ pids[p] = Uninit
        /\ punchLog = "none" /\ bogo = 0

C2_Witness == probe = "EIO" /\ spc = "done"

\* C3: a step in which a worker's discovery or populate call fails ends that
\* worker only: every other worker, the supervisor and the driver, the run
\* flag and the counters are as before; and a worker that has ended is never
\* started again, it can only be reaped.
C3_FailureIsLocal ==
    [][/\ \A p \in Procs :
            (wpc[p] \in {"discover", "populate"} /\ wpc'[p] = "exited")
              => /\ \A q \in Procs \ {p} : wpc'[q] = wpc[q]
                 /\ supVars' = supVars
                 /\ envVars' = envVars
                 /\ counters' = counters
       /\ \A p \in Procs : wpc[p] = "exited" => wpc'[p] \in {"exited", "reaped"}]_vars

\* a worker has ended on a failed call (the stop condition is not met), the
\* driver is running and another worker is in the middle of a cycle
C3_Witness ==
    /\ Driving
    /\ keep_stressing(bogo)
    /\ \E p, q \in Procs : /\ wpc[p] = "exited"
                           /\ wpc[q] = "populate"
                           /\ \A r \in Procs \ {p} : wpc[r] \in Live

\* C4: when stress_fiemap has returned, the counters are unmapped, the
\* temporary directory is removed, the descriptor is not open and every
\* worker that was forked has been reaped.
C4_NothingLeftAtReturn ==
    spc = "done" =>
        /\ ~mapped
        /\ ~tmpdir
        /\ fd # "open"
        /\ \A p \in Procs : wpc[p] \in {"none", "reaped"}

\* the return after a fork failure with workers already spawned
C4_Witness ==
    /\ spc = "done"
    /\ \E p \in Procs : pids[p] = -1 /\ p > 0
    /\ \A p \in Procs : pids[p] \in 1 .. MAX_FIEMAP_PROCS => wpc[p] = "reaped"

\* C5: once the stop condition holds, the supervisor eventually returns, and
\* by then it has sent SIGKILL to every worker it forked, in spawn order, and
\* every one of them has been waited for.
C5_StopLeadsToReapedReturn ==
    (~keep_stressing(bogo)) ~>
        (/\ spc = "done"
         /\ killLog = [k \in 1 .. n |-> pids[k - 1]]
         /\ \A p \in Procs : wpc[p] \in {"none", "reaped"}
         /\ \A p \in Procs : p < n => wpc[p] = "reaped")

\* the return after the driver was stopped with all workers forked
C5_Witness ==
    /\ spc = "done"
    /\ ~keepFlag
    /\ n = MAX_FIEMAP_PROCS
    /\ wrc = "EXIT_SUCCESS"
    /\ Len(killLog) = MAX_FIEMAP_PROCS
    /\ \A p \in Procs : wpc[p] = "reaped"

\* C6 as claimed: after a fork failure the run is not reported as failed.
C6_ForkFailureNotFatal ==
    (spc = "done" /\ \E k \in Procs : pids[k] = -1) => rc # "EXIT_FAILURE"

\* C6: when fork fails for worker k, no further worker is spawned, the driver
\* does not run, the k workers created are killed and reaped, and the run
\* returns EXIT_FAILURE, the value rc was initialised with.
C6_ForkFailureReapsAndFails ==
    \A k \in Procs :
        pids[k] = -1 =>
            /\ n = k
            /\ \A j \in Procs : j > k => (pids[j] = Uninit /\ wpc[j] = "none")
            /\ spc \in {"reap", "close_clean", "done"}
            /\ punchLog = "none" /\ wrc = "EXIT_FAILURE" /\ bogo = 0 /\ ~badClose
            /\ rc = "EXIT_FAILURE"
            /\ spc # "reap" =>
                   /\ killLog = [i \in 1 .. k |-> pids[i - 1]]
                   /\ \A j \in Procs : j < k => wpc[j] = "reaped"

\* the return after fork failed for the third worker
C6_Witness == spc = "done" /\ pids[2] = -1 /\ Len(killLog) = 2

\* C7: no hole punch is issued once one has failed with EOPNOTSUPP, and
\* punch_hole is cleared by no other failure.
C7_NoPunchAfterNotSupported ==
    /\ spc = "punch" => punchLog \in {"none", "other"}
    /\ (Driving \/ spc = "tidy") =>
           (punch_hole <=> punchLog \in {"none", "other"})

\* a write probe of a later iteration, after a punch that failed with
\* EOPNOTSUPP and after punches that ended otherwise
C7_Witness == spc = "write" /\ punchLog = "later_notsup"

\* the driver leaves its loop in this step, other than by a fatal write
LeavesLoop == Driving /\ spc # "write" /\ spc' = "tidy"

\* C8 as claimed: when the first hole punch failed with EOPNOTSUPP and no
\* write fails fatally, no punch is issued again, the driver leaves its loop
\* only when the stop condition is met, and the run returns EXIT_SUCCESS.
C8_WriteOnlyUntilStop ==
    [][punchLog = "first_notsup" =>
         /\ spc' # "punch"
         /\ LeavesLoop => (wrc' = "EXIT_SUCCESS" /\ ~keep_stressing(bogo'))
         /\ (spc = "tidy" /\ spc' # "tidy") => rc' = wrc
         /\ spc \in {"reap", "close_clean"} => rc' = rc]_vars

\* C8: as above, but the driver also leaves its loop, with success, when a
\* seek fails.
C8_WriteOnlyUntilStopOrSeekFails ==
    [][punchLog = "first_notsup" =>
         /\ spc' # "punch"
         /\ LeavesLoop => /\ wrc' = "EXIT_SUCCESS"
                          /\ (spc = "seek" \/ ~keep_stressing(bogo'))
         /\ (spc = "tidy" /\ spc' # "tidy") => rc' = wrc
         /\ spc \in {"reap", "close_clean"} => rc' = rc]_vars

\* the successful return of a run whose first punch failed with EOPNOTSUPP
\* and that was stopped
C8_Witness ==
    /\ punchLog = "first_notsup"
    /\ spc = "done"
    /\ rc = "EXIT_SUCCESS"
    /\ ~keepFlag

\* C9: the value the driver publishes with set_counter never decreases.
C9_AggregateMonotonic == [][bogo' >= bogo]_vars

\* a published sum that lags behind the counters: a slot was incremented
\* after the driver had read it
C9_Witness ==
    /\ bogo = 1
    /\ SumTo(counters, MAX_FIEMAP_PROCS) = 2
    /\ counters[0] = 1
    /\ spc = "write"

\* C10: the step in which mmap fails sets rc to EXIT_NO_RESOURCE and returns;
\* no directory, file or worker exists then; and no step follows a return.
C10_MmapFailureReturnsAtOnce ==
    [][/\ (spc = "mmap" /\ spc' # "mmap" /\ ~mapped') =>
             /\ spc' = "done"
             /\ rc' = "EXIT_NO_RESOURCE"
             /\ ~tmpdir' /\ fd' = "none" /\ ~linked'
             /\ procState' = "INIT"
             /\ n' = 0 /\ \A p \in Procs : wpc'[p] = "none"
       /\ spc # "done"]_vars

C10_Witness == spc = "done" /\ rc = "EXIT_NO_RESOURCE" /\ ~mapped /\ procState = "INIT"

\* the greater of two sizes
MaxOf(a, b) == IF a >= b THEN a ELSE b

\* C11: for every size S the option accepts and every number n >= 1 of
\* instances, the length the driver is called with is max(S / n, MIN), the
\* division being the integer one.
C11_EffectiveLength ==
    spc # "size" => fiemap_bytes = MaxOf(setting \div num_instances, MIN_FIEMAP_SIZE)

\* the driver is called with the minimum: the size asked for was above it,
\* and its share, rounded down by the division, is below it
C11_Witness ==
    /\ spc = "seek"
    /\ setting > MIN_FIEMAP_SIZE
    /\ (setting \div num_instances) * num_instances < setting
    /\ setting \div num_instances < MIN_FIEMAP_SIZE
    /\ fiemap_bytes = MIN_FIEMAP_SIZE

\* C12: the file has a directory entry only between its open and the unlink
\* that follows at once: whenever the probe has been made, a worker exists,
\* the driver runs or has run, or the run is being torn down, the entry is
\* gone; and the step after a successful open is the unlink.
C12_UnlinkedBeforeUse ==
    /\ linked => /\ spc = "unlink"
                 /\ fd = "open"
                 /\ probe = "none"
                 /\ n = 0 /\ \A p \in Procs : wpc[p] = "none" /\ pids[p] = Uninit
                 /\ punchLog = "none" /\ wrc = "EXIT_FAILURE" /\ bogo = 0
    /\ (fd = "open" /\ spc # "unlink") => ~linked

\* the driver is at a write probe and a worker is in a query cycle, with the
\* descriptor open and no directory entry
C12_Witness ==
    /\ spc = "write"
    /\ fd = "open"
    /\ ~linked
    /\ \E p \in Procs : wpc[p] = "populate"

\* C13: the report that FIEMAP is not supported is emitted by at most one
\* process of a run, the probe and all workers taken together.
C13_ReportedOnce == skipReports <= 1

\* C14: the step from the discovery call's answer to the populate call sets
\* the capacity to the count that answer reported (zero included), sizes the
\* buffer for that many records and clears the mapped count; and the populate
\* call is issued with these values.
C14_CapacityIsDiscoveredCount ==
    [][\A p \in Procs :
         /\ (wpc[p] = "check" /\ wpc'[p] = "populate") =>
                /\ fm_extent_count'[p] = fm_mapped_extents[p]
                /\ extents_size'[p] = fm_mapped_extents[p]
                /\ fm_mapped_extents'[p] = 0
         /\ (wpc[p] = "populate" /\ wpc'[p] # "populate" /\ wpc'[p] # "killed") =>
                /\ extents_size[p] = fm_extent_count[p]
                /\ fm_mapped_extents[p] = 0]_vars

\* two workers about to issue their populate calls, one for no extent and
\* one for as many as a discovery call can report
C14_Witness ==
    \E p, q \in Procs :
        /\ wpc[p] = "populate" /\ fm_extent_count[p] = 0
        /\ wpc[q] = "populate" /\ fm_extent_count[q] = MaxExtents
        /\ extents_size[q] = MaxExtents /\ fm_mapped_extents[q] = 0

\* C15: a worker's slot grows by exactly one in the step that completes a
\* cycle (the populate call succeeded, after a discovery call that did) and
\* is changed by no other step, in particular by none that ends a cycle
\* early; it is zero until the worker is forked, and the slots together
\* never count more cycles than were started.
C15_SlotCountsCompletedCycles ==
    [][/\ \A p \in Procs :
            IF wpc[p] = "populate" /\ wpc'[p] = "while"
            THEN counters'[p] = counters[p] + 1
            ELSE counters'[p] = counters[p]
       /\ \A p \in Procs : wpc'[p] = "none" => counters'[p] = 0
       /\ SumTo(counters', MAX_FIEMAP_PROCS) <= started']_vars

\* a worker has completed a cycle and is back at the top of its loop; another
\* ended its first cycle early, with the stop condition not met, and its slot
\* is still zero
C15_Witness ==
    /\ keep_stressing(bogo)
    /\ \E p, q \in Procs : /\ counters[p] = 1 /\ wpc[p] = "discover"
                           /\ wpc[q] = "exited" /\ counters[q] = 0

\* C16: the driver leaves its loop with EXIT_FAILURE exactly when a write
\* failed with an errno other than ENOSPC, EAGAIN and EINTR; after ENOSPC the
\* iteration goes to the loop condition with no punch; after EAGAIN or EINTR,
\* as after a success, it goes on to its second count; every other exit from
\* the loop yields EXIT_SUCCESS; and the status is what the driver returns.
C16_FailureOnlyOnFatalWrite ==
    [][/\ \A e \in WriteErrnos \cup {"ok"} :
            DriverWriteGot(e) =>
                /\ e = "ENOSPC" => spc' = "while"
                /\ e \in {"ok", "EAGAIN", "EINTR"} => spc' = "count2"
                /\ e \notin {"ok", "ENOSPC", "EAGAIN", "EINTR"} => spc' = "tidy"
       /\ (Driving /\ spc' = "tidy") =>
            /\ wrc' = "EXIT_FAILURE" <=> spc = "write"
            /\ wrc' \in {"EXIT_FAILURE", "EXIT_SUCCESS"}
       /\ (spc' = "punch" /\ spc # "punch") => spc = "count2"
       /\ spc = "while" => spc' \in {"while", "seek", "tidy"}
       /\ (spc = "tidy" /\ spc' # "tidy") => rc' = wrc]_vars

\* the driver has returned EXIT_FAILURE from a later iteration, with the
\* stop condition not met
C16_Witness ==
    /\ spc = "reap"
    /\ n = MAX_FIEMAP_PROCS
    /\ rc = "EXIT_FAILURE"
    /\ punchLog # "none"
    /\ keep_stressing(bogo)

\* C17: while the counters are mapped, a step that changes slot i is a step
\* of worker i completing a cycle: it changes no other slot, it is no step of
\* another worker, and it is no step of the supervisor or the driver, which
\* only read the slots.
C17_SlotHasOneWriter ==
    [][\A i \in Procs :
         counters'[i] # counters[i] =>
             /\ mapped /\ mapped'
             /\ wpc[i] = "populate" /\ wpc'[i] = "while"
             /\ \A j \in Procs \ {i} : counters'[j] = counters[j] /\ wpc'[j] = wpc[j]
             /\ supVars' = supVars]_vars

\* two workers have each written their own slot, and the driver is in the
\* middle of reading the slots
C17_Witness ==
    /\ spc \in {"count1", "count2", "count3"}
    /\ cidx = 1
    /\ counters[0] = 0 /\ counters[1] = 1 /\ counters[3] = 1

\* C18 as claimed: an iteration of the driver that ran to its end adds to the
\* slots, so that some slot is positive after it even when no worker has
\* started a query cycle.
C18_DriverIterationsCounted ==
    [][(spc = "count3" /\ spc' = "while" /\ started = 0) =>
           SumTo(counters', MAX_FIEMAP_PROCS) > 0]_vars

\* C18: only the workers add to the slots; the driver adds nothing: it reads
\* the slots and publishes their sum, so the aggregate compared with the
\* budget never exceeds the cycles the workers have completed, and it stays
\* zero, whatever the driver does, while no worker has started a cycle.
C18_OnlyWorkersCount ==
    [][/\ SumTo(counters', MAX_FIEMAP_PROCS) # SumTo(counters, MAX_FIEMAP_PROCS) =>
            /\ spc' = spc
            /\ \E p \in Procs : wpc[p] = "populate" /\ wpc'[p] = "while"
       /\ bogo' <= SumTo(counters', MAX_FIEMAP_PROCS)
       /\ started' = 0 => (bogo' = 0 /\ SumTo(counters', MAX_FIEMAP_PROCS) = 0)]_vars

\* the driver starts a further iteration after one that ran to its end, and
\* the aggregate it published is still zero
C18_Witness ==
    /\ spc = "seek"
    /\ punchLog = "other"
    /\ started = 0
    /\ bogo = 0
    /\ SumTo(counters, MAX_FIEMAP_PROCS) = 0

\* C19 as claimed: the supervisor's process never calls close on a
\* descriptor it has closed, and returns with the descriptor closed once
\* whenever the file was opened.
C19_ClosedExactlyOnce ==
    /\ ~badClose
    /\ (spc = "done" /\ fd # "none") => fd = "closed"

\* C20: SIGKILL is sent to the pids of the workers forked, in spawn order and
\* once each, every one being waited for before the next is signalled; it is
\* sent to a worker not waited for yet, never to the -1 of a failed fork nor
\* to a slot of pids[] that was not assigned; and when the reap step is
\* left, every worker forked has been signalled and waited for.
C20_KillOnlyForkedInOrder ==
    [][/\ Len(killLog') = ri' /\ ri' <= n'
       /\ \A i \in 1 .. Len(killLog') :
            /\ killLog'[i] = pids'[i - 1]
            /\ killLog'[i] = i
            /\ killLog'[i] \notin {-1, Uninit}
       /\ \A p \in Procs : wpc'[p] = "reaped" <=> p < ri'
       /\ killLog' # killLog =>
            /\ spc = "reap"
            /\ killLog' = Append(killLog, pids[ri])
            /\ wpc[ri] \in Live \cup {"exited"}
       /\ (spc = "reap" /\ spc' # "reap") => ri = n]_vars

\* the reap step is left after the run was stopped while spawning: three
\* workers were forked, the fourth slot of pids[] was never assigned
C20_Witness ==
    /\ spc = "close_clean"
    /\ ~keepFlag
    /\ n = 3
    /\ pids[3] = Uninit
    /\ killLog = <<1, 2, 3>>

====
